---- MODULE Spec2Model ----
(***************************************************************************)
(* A model of src/types/Path.ts: the Path value type (an absolute,         *)
(* normalized filesystem path held as a string) and its operations.        *)
(*                                                                         *)
(* A JavaScript string is a sequence of one-character strings, so that     *)
(* split, join, startsWith, slice and normalization are computed as the    *)
(* code computes them.  "/a/b" is <<"/", "a", "/", "b">>.                  *)
(*                                                                         *)
(* Three specifications share the module:                                  *)
(*   SpecPath  the path algebra (constructor, join, parent, basename,      *)
(*             relative) over bounded input strings;                       *)
(*   SpecFS    the operations that touch the filesystem (readlink, write,  *)
(*             mv, rm, read), one action per whole call, over a bounded    *)
(*             filesystem with directories, files and symlinks;            *)
(*   SpecConc  two callers of write() interleaved at the granularity of    *)
(*             the OS primitives, with crashes.                            *)
(***************************************************************************)
EXTENDS Integers, Sequences, FiniteSets, TLC

VARIABLES self, out, fs, last, procs

vars == <<self, out, fs, last, procs>>

(***************************************************************************)
(* Bounds                                                                  *)
(***************************************************************************)
\* longest input string, and longest Path string kept, in SpecPath
MaxLen == 4
\* symbolic links followed in one path resolution before ELOOP
MaxSymlinks == 4

Chars == {"/", ".", "a"}

Strings(n) == UNION {[1..k -> Chars] : k \in 0..n}

Slash == <<"/">>
Empty == <<>>

(***************************************************************************)
(* JavaScript string and array primitives                                  *)
(***************************************************************************)
\* String.prototype.startsWith
StartsWith(s, prefix) ==
    /\ Len(prefix) <= Len(s)
    /\ SubSeq(s, 1, Len(prefix)) = prefix

\* index of the first "/" of s, 0 when there is none
RECURSIVE IndexOfSlash(_, _)
IndexOfSlash(s, i) ==
    IF i > Len(s) THEN 0
    ELSE IF s[i] = "/" THEN i
    ELSE IndexOfSlash(s, i + 1)

\* String.prototype.split("/"): "".split("/") is [""], "/".split("/") is ["", ""]
RECURSIVE Split(_)
Split(s) ==
    LET i == IndexOfSlash(s, 1) IN
    IF i = 0 THEN <<s>>
    ELSE <<SubSeq(s, 1, i - 1)>> \o Split(SubSeq(s, i + 1, Len(s)))

\* Array.prototype.join("/")
RECURSIVE JoinSlash(_)
JoinSlash(parts) ==
    IF Len(parts) = 0 THEN Empty
    ELSE IF Len(parts) = 1 THEN parts[1]
    ELSE parts[1] \o Slash \o JoinSlash(Tail(parts))

\* Array.prototype.slice(n)
Slice(arr, n) == SubSeq(arr, n + 1, Len(arr))

(***************************************************************************)
(* deno/path (posix): normalize, dirname, basename                         *)
(***************************************************************************)
\* normalizeString: drops empty and "." segments, a ".." segment removes the
\* segment before it; above the root it is dropped unless allowAboveRoot
RECURSIVE NormalizeSegs(_, _, _)
NormalizeSegs(segs, stack, allowAboveRoot) ==
    IF Len(segs) = 0 THEN stack
    ELSE
        LET seg == Head(segs)
            next ==
                IF seg = Empty \/ seg = <<".">> THEN stack
                ELSE IF seg = <<".", ".">> THEN
                    IF Len(stack) > 0 /\ stack[Len(stack)] # <<".", ".">>
                    THEN SubSeq(stack, 1, Len(stack) - 1)
                    ELSE IF allowAboveRoot THEN Append(stack, seg)
                    ELSE stack
                ELSE Append(stack, seg)
        IN NormalizeSegs(Tail(segs), next, allowAboveRoot)

normalizeString(path, allowAboveRoot) ==
    JoinSlash(NormalizeSegs(Split(path), <<>>, allowAboveRoot))

\* sys.normalize: a trailing separator of the input is kept
normalize(path) ==
    IF Len(path) = 0 THEN <<".">>
    ELSE
        LET isAbsolute == path[1] = "/"
            trailingSeparator == path[Len(path)] = "/"
            p1 == normalizeString(path, ~isAbsolute)
            p2 == IF Len(p1) = 0 /\ ~isAbsolute THEN <<".">> ELSE p1
            p3 == IF Len(p2) > 0 /\ trailingSeparator THEN p2 \o Slash ELSE p2
        IN IF isAbsolute THEN Slash \o p3 ELSE p3

\* the backwards scan of dirname: the index of the separator that ends the
\* directory part, -1 when the scan reaches index 1 without finding one
\* (indices are JavaScript's, from 0)
RECURSIVE DirnameEnd(_, _, _)
DirnameEnd(path, i, matchedSlash) ==
    IF i < 1 THEN -1
    ELSE IF path[i + 1] = "/" THEN
        IF ~matchedSlash THEN i
        ELSE DirnameEnd(path, i - 1, matchedSlash)
    ELSE DirnameEnd(path, i - 1, FALSE)

\* sys.dirname
dirname(path) ==
    IF Len(path) = 0 THEN <<".">>
    ELSE
        LET hasRoot == path[1] = "/"
            end == DirnameEnd(path, Len(path) - 1, TRUE)
        IN IF end = -1 THEN (IF hasRoot THEN Slash ELSE <<".">>)
           ELSE IF hasRoot /\ end = 1 THEN <<"/", "/">>
           ELSE SubSeq(path, 1, end)

\* the backwards scan of basename: <<start, end>> of the last component,
\* end = -1 when the path has no component (indices from 0)
RECURSIVE BasenameScan(_, _, _, _)
BasenameScan(path, i, matchedSlash, end) ==
    IF i < 0 THEN <<0, end>>
    ELSE IF path[i + 1] = "/" THEN
        IF ~matchedSlash THEN <<i + 1, end>>
        ELSE BasenameScan(path, i - 1, matchedSlash, end)
    ELSE IF end = -1 THEN BasenameScan(path, i - 1, FALSE, i + 1)
    ELSE BasenameScan(path, i - 1, matchedSlash, end)

\* sys.basename
sysBasename(path) ==
    LET se == BasenameScan(path, Len(path) - 1, TRUE, -1) IN
    IF se[2] = -1 THEN Empty
    ELSE SubSeq(path, se[1] + 1, se[2])

(***************************************************************************)
(* Path: constructor and composition.  A Path value is its string; the     *)
(* result of an operation that may throw is [ok, val].                     *)
(***************************************************************************)
Ok(v) == [ok |-> TRUE, val |-> v]
Throw(e) == [ok |-> FALSE, val |-> e]

E_invalid == <<"i", "n", "v", "a", "l", "i", "d">>
E_unimpl == <<"u", "n", "i", "m", "p", "l">>

root == Slash

\* new Path(input) for a string input
Path(input) ==
    IF Len(input) = 0 \/ input[1] # "/" THEN Throw(E_invalid)
    ELSE Ok(normalize(input))

\* new Path(input) for a Path input: a copy
PathCopy(p) == Ok(p)

\* parent()
parent(this) == Path(dirname(this))

\* join that appends an absolute component to the base instead of
\* returning it alone
join_KeepBase(this, components) ==
    LET joined == JoinSlash(components) IN
    IF Len(joined) > 0 THEN Path(this \o Slash \o joined)
    ELSE Ok(this)

\* join(...components)
join(this, components) ==
    LET joined == JoinSlash(components) IN
    IF Len(joined) > 0 /\ joined[1] = "/" THEN Path(joined)
    ELSE IF Len(joined) > 0 THEN Path(this \o Slash \o joined)
    ELSE Ok(this)

\* basename()
basename(this) == sysBasename(this)

\* relative({to: base})
relative(this, base) ==
    LET pathComps == <<Slash>> \o Split(this)
        baseComps == <<Slash>> \o Split(base)
    IN IF StartsWith(this, base)
       THEN Ok(JoinSlash(Slice(pathComps, Len(baseComps))))
       ELSE Throw(E_unimpl)

(***************************************************************************)
(* SpecPath: the path algebra.  self is a live Path value (its string);    *)
(* out records the last call: its name, whether it returned (ok) or threw, *)
(* its input string or receiver or, for relative, its base (arg), the      *)
(* components of a join (comps) and the value returned or thrown (val).    *)
(***************************************************************************)
NoFS == [n \in {} |-> 0]

OutRec(op, ok, arg, comps, val) ==
    [op |-> op, ok |-> ok, arg |-> arg, comps |-> comps, val |-> val]

\* the strings handed to the constructor: every string of up to MaxLen
\* characters that starts with "/", every string of up to MaxLen - 2 characters
InputStrings ==
    {s \in Strings(MaxLen) : StartsWith(s, Slash)} \cup Strings(MaxLen - 2)

\* the component lists handed to join: no component, one component of up to
\* MaxLen - 2 characters, two components of at most one character
ComponentLists ==
    {<<>>}
    \cup {<<s>> : s \in Strings(MaxLen - 2)}
    \cup {<<s, t>> : s \in Strings(1), t \in Strings(1)}

\* static root = new Path("/")
InitPath ==
    /\ self = Path(Slash).val
    /\ out = OutRec("init", TRUE, Empty, <<>>, Empty)
    /\ fs = NoFS
    /\ last = NoFS
    /\ procs = NoFS

\* self = new Path(s), for any string s
Construct(s) ==
    LET r == Path(s) IN
    /\ self' = IF r.ok THEN r.val ELSE self
    /\ out' = OutRec("new", r.ok, s, <<>>, r.val)
    /\ UNCHANGED <<fs, last, procs>>

\* self = new Path(self)
ConstructFromPath ==
    LET r == PathCopy(self) IN
    /\ self' = r.val
    /\ out' = OutRec("copy", r.ok, self, <<>>, r.val)
    /\ UNCHANGED <<fs, last, procs>>

\* self = self.parent()
Parent ==
    LET r == parent(self) IN
    /\ r.ok
    /\ self' = r.val
    /\ out' = OutRec("parent", TRUE, self, <<>>, r.val)
    /\ UNCHANGED <<fs, last, procs>>

\* self = self.join(...components); results longer than MaxLen are not kept
Join(components) ==
    LET r == join(self, components) IN
    /\ r.ok
    /\ Len(r.val) <= MaxLen
    /\ self' = r.val
    /\ out' = OutRec("join", TRUE, self, components, r.val)
    /\ UNCHANGED <<fs, last, procs>>

\* self.basename()
Basename ==
    /\ out' = OutRec("basename", TRUE, self, <<>>, basename(self))
    /\ UNCHANGED <<self, fs, last, procs>>

\* self.relative({to: new Path(b)})
Relative(b) ==
    LET base == Path(b)
        r == relative(self, base.val)
    IN
    /\ base.ok
    /\ out' = OutRec("relative", r.ok, base.val, <<>>, r.val)
    /\ UNCHANGED <<self, fs, last, procs>>

NextPath ==
    \/ \E s \in InputStrings : Construct(s)
    \/ ConstructFromPath
    \/ Parent
    \/ \E components \in ComponentLists : Join(components)
    \/ Basename
    \/ \E b \in InputStrings : Relative(b)

SpecPath == InitPath /\ [][NextPath]_vars

(***************************************************************************)
(* Properties of the path algebra                                          *)
(***************************************************************************)
\* the segments of a path string: the non-empty parts between separators
NonEmpty(seg) == seg # Empty
Segments(p) == SelectSeq(Split(p), NonEmpty)

\* a is a segment-wise prefix of b
SegPrefix(a, b) == Len(a) <= Len(b) /\ SubSeq(b, 1, Len(a)) = a

\* a normalized absolute string: starts with "/", has no empty, "." or ".."
\* segment and no trailing slash, or is exactly "/"
IsNormalized(p) ==
    /\ Len(p) > 0
    /\ p[1] = "/"
    /\ \/ p = Slash
       \/ LET segs == Split(SubSeq(p, 2, Len(p))) IN
          \A i \in 1..Len(segs) :
              segs[i] \notin {Empty, <<".">>, <<".", ".">>}

\* C1: when the base's segments are a prefix of the target's segments (base
\* = root and base = target included), target.relative({to: base}) returns
\* and base.join of the returned string is the target again.
C1_RelativeJoinRoundTrip ==
    (out.op = "relative" /\ SegPrefix(Segments(out.arg), Segments(self)))
        => (out.ok /\ join(out.arg, <<out.val>>) = Ok(self))

\* C2: when the base's segments are not a segment-wise prefix of the
\* target's segments, target.relative({to: base}) throws; so it throws for
\* a base that is only a string prefix of the target ("/a" and "/aa").
C2_RelativeRejectsNonSubpath ==
    (out.op = "relative" /\ ~SegPrefix(Segments(out.arg), Segments(self)))
        => ~out.ok

\* C3: every live Path holds a normalized absolute string, and the
\* constructor throws for a string that does not start with "/".
C3_PathsAreNormalized ==
    /\ IsNormalized(self)
    /\ (out.op = "relative" => IsNormalized(out.arg))
    /\ (out.op = "new" /\ ~StartsWith(out.arg, Slash)) => ~out.ok

\* C4: for a Path p other than root, p.parent().join(p.basename()) is p;
\* and root.parent() is root.
C4_ParentJoinBasename ==
    /\ (out.op = "basename" /\ self # root)
           => join(parent(self).val, <<out.val>>) = Ok(self)
    /\ (out.op = "parent" /\ out.arg = root) => out.val = root

\* C5: base.join(components), with joined the components joined by "/":
\* when joined starts with "/" the result is Path(joined) whatever the base;
\* when joined is empty the result is the base; otherwise the result is
\* Path(base + "/" + joined).
C5_JoinResult ==
    out.op = "join" =>
        LET joined == JoinSlash(out.comps)
            base == out.arg
        IN IF StartsWith(joined, Slash)
           THEN /\ Path(joined) = Ok(out.val)
                /\ \A b \in {root, base, out.val} :
                       join(b, out.comps) = Ok(out.val)
           ELSE IF joined = Empty
           THEN out.val = base
           ELSE Path(base \o Slash \o joined) = Ok(out.val)

\* a join of two components whose joined string is absolute, onto a base
\* other than root, returning a path other than the base
C5_Witness ==
    /\ out.op = "join"
    /\ Len(out.comps) = 2
    /\ StartsWith(JoinSlash(out.comps), Slash)
    /\ out.arg # root
    /\ out.val # out.arg
    /\ out.val # root

(***************************************************************************)
(* The host filesystem.  A location is the sequence of names from the      *)
(* root to an entry; the filesystem maps every location of Nodes to an     *)
(* entry [kind, data]: kind "none" (nothing there), "file" (data is its    *)
(* text), "dir", or "link" (data is the link's target string).  The root   *)
(* location <<>> is always a directory.                                    *)
(***************************************************************************)
NameA == <<"a">>
NameB == <<"b">>

Nodes == {<<NameA>>, <<NameB>>, <<NameA, NameA>>, <<NameB, NameA>>}

Texts == {<<"x">>, <<"y">>}
JsonText == <<"{", "}">>
LinkTargets == {<<"a">>, <<"/", "b">>}

NoEntry == [kind |-> "none", data |-> Empty]
DirEntry == [kind |-> "dir", data |-> Empty]
FileEntry(text) == [kind |-> "file", data |-> text]
LinkEntry(target) == [kind |-> "link", data |-> target]

Entries ==
    {NoEntry, DirEntry}
    \cup {FileEntry(t) : t \in Texts \cup {JsonText}}
    \cup {LinkEntry(t) : t \in LinkTargets}

ParentLoc(loc) == IF Len(loc) = 0 THEN loc ELSE SubSeq(loc, 1, Len(loc) - 1)

EntryAt(f, loc) ==
    IF loc = <<>> THEN DirEntry
    ELSE IF loc \in Nodes THEN f[loc]
    ELSE NoEntry

\* every entry lies in a directory
WellFormed(f) ==
    \A loc \in Nodes :
        f[loc].kind # "none" => EntryAt(f, ParentLoc(loc)).kind = "dir"

WellFormedFS == {f \in [Nodes -> Entries] : WellFormed(f)}

EmptyFS == [loc \in Nodes |-> NoEntry]

\* the locations at or below loc that hold an entry
IsLocPrefix(a, b) == Len(a) <= Len(b) /\ SubSeq(b, 1, Len(a)) = a
Subtree(f, loc) == {n \in Nodes : IsLocPrefix(loc, n) /\ f[n].kind # "none"}
Children(f, loc) == {n \in Subtree(f, loc) : n # loc}

(***************************************************************************)
(* Path resolution as the kernel does it: walk the segments from cur,      *)
(* following a symlink in every component but the last, and in the last    *)
(* one only when followLast.  The result is [err, loc, creat]: err is      *)
(* "OK" with the location found, or ENOENT / ENOTDIR / ELOOP; creat says   *)
(* that only the last component is missing, so that loc can be created.    *)
(***************************************************************************)
Found(loc) == [err |-> "OK", loc |-> loc, creat |-> FALSE]
Failed(err, loc, creat) == [err |-> err, loc |-> loc, creat |-> creat]

RECURSIVE Walk(_, _, _, _, _)
Walk(f, cur, segs, followLast, fuel) ==
    IF Len(segs) = 0 THEN Found(cur)
    ELSE
        LET seg == Head(segs)
            rest == Tail(segs)
        IN
        IF seg = <<".">> THEN Walk(f, cur, rest, followLast, fuel)
        ELSE IF seg = <<".", ".">>
        THEN Walk(f, ParentLoc(cur), rest, followLast, fuel)
        ELSE
            LET child == Append(cur, seg)
                e == EntryAt(f, child)
            IN
            CASE e.kind = "none" -> Failed("ENOENT", child, Len(rest) = 0)
              [] e.kind = "file" ->
                    IF Len(rest) = 0 THEN Found(child)
                    ELSE Failed("ENOTDIR", child, FALSE)
              [] e.kind = "dir" -> Walk(f, child, rest, followLast, fuel)
              [] e.kind = "link" ->
                    IF Len(rest) = 0 /\ ~followLast THEN Found(child)
                    ELSE IF fuel = 0 THEN Failed("ELOOP", child, FALSE)
                    ELSE Walk(f,
                              IF StartsWith(e.data, Slash) THEN <<>> ELSE cur,
                              Segments(e.data) \o rest, followLast, fuel - 1)

\* a path with a trailing slash names a directory, through a final symlink
TrailingSlash(s) == Len(s) > 1 /\ s[Len(s)] = "/"

DirectoryIfTrailing(f, s, r) ==
    IF TrailingSlash(s) /\ r.err = "OK" /\ EntryAt(f, r.loc).kind # "dir"
    THEN Failed("ENOTDIR", r.loc, FALSE)
    ELSE r

Lookup(f, s, followLast) ==
    DirectoryIfTrailing(f, s,
        Walk(f, <<>>, Segments(s), followLast \/ TrailingSlash(s), MaxSymlinks))

(***************************************************************************)
(* Deno's filesystem primitives.  An OS error is thrown as [class, code]:  *)
(* ENOENT is a Deno.errors.NotFound, EINVAL a TypeError, the others a      *)
(* plain Error.  A primitive that changes the filesystem returns           *)
(* [ok, val, fs].  CAP marks an entry the bounded Nodes cannot hold.  Each *)
(* primitive resolves its path once (Lookup) and acts on what it found     *)
(* (the ...At operator).                                                   *)
(***************************************************************************)
DenoError(code) ==
    [class |-> IF code = "ENOENT" THEN "NotFound"
               ELSE IF code = "EINVAL" THEN "TypeError"
               ELSE "Error",
     code |-> code]

OkFS(v, f) == [ok |-> TRUE, val |-> v, fs |-> f]
ThrowFS(e, f) == [ok |-> FALSE, val |-> e, fs |-> f]

StatAt(f, r) ==
    IF r.err = "OK" THEN Ok(EntryAt(f, r.loc)) ELSE Throw(DenoError(r.err))

\* Deno.statSync: follows symlinks
statSync(f, s) == StatAt(f, Lookup(f, s, TRUE))

\* Deno.lstatSync: does not follow a final symlink
lstatSync(f, s) == StatAt(f, Lookup(f, s, FALSE))

ReadLinkAt(f, r) ==
    IF r.err # "OK" THEN Throw(DenoError(r.err))
    ELSE IF EntryAt(f, r.loc).kind = "link" THEN Ok(EntryAt(f, r.loc).data)
    ELSE Throw(DenoError("EINVAL"))

\* Deno.readLinkSync
readLinkSync(f, s) == ReadLinkAt(f, Lookup(f, s, FALSE))

RemoveAt(f, r, recursive) ==
    IF r.err # "OK" THEN ThrowFS(DenoError(r.err), f)
    ELSE IF r.loc = <<>> THEN ThrowFS(DenoError("EBUSY"), f)
    ELSE IF EntryAt(f, r.loc).kind = "dir" /\ ~recursive
            /\ Children(f, r.loc) # {}
    THEN ThrowFS(DenoError("ENOTEMPTY"), f)
    ELSE OkFS(Empty,
              [n \in Nodes |-> IF IsLocPrefix(r.loc, n) THEN NoEntry ELSE f[n]])

\* Deno.removeSync: removes the entry itself, never the target of a symlink
removeSync(f, s, recursive) == RemoveAt(f, Lookup(f, s, FALSE), recursive)

WriteAt(f, r, text) ==
    IF r.err = "OK" THEN
        IF EntryAt(f, r.loc).kind = "dir" THEN ThrowFS(DenoError("EISDIR"), f)
        ELSE OkFS(Empty, [f EXCEPT ![r.loc] = FileEntry(text)])
    ELSE IF r.err = "ENOENT" /\ r.creat THEN
        IF r.loc \in Nodes THEN OkFS(Empty, [f EXCEPT ![r.loc] = FileEntry(text)])
        ELSE ThrowFS(DenoError("CAP"), f)
    ELSE ThrowFS(DenoError(r.err), f)

\* Deno.writeTextFileSync: create or truncate, through symlinks
writeTextFileSync(f, s, text) == WriteAt(f, Lookup(f, s, TRUE), text)

ReadAt(f, r) ==
    IF r.err # "OK" THEN Throw(DenoError(r.err))
    ELSE IF EntryAt(f, r.loc).kind = "dir" THEN Throw(DenoError("EISDIR"))
    ELSE Ok(EntryAt(f, r.loc).data)

\* Deno.readTextFile
readTextFile(f, s) == ReadAt(f, Lookup(f, s, TRUE))

\* the tree at src moved to dst
MoveTree(f, src, dst) ==
    [n \in Nodes |->
        IF IsLocPrefix(dst, n)
        THEN EntryAt(f, src \o SubSeq(n, Len(dst) + 1, Len(n)))
        ELSE IF IsLocPrefix(src, n) THEN NoEntry
        ELSE f[n]]

\* rename(2) of the entry found at rs onto what was found at rd
RenameAt(f, rs, rd) ==
    LET se == EntryAt(f, rs.loc)
        de == EntryAt(f, rd.loc)
    IN
    IF rs.err # "OK" THEN ThrowFS(DenoError(rs.err), f)
    ELSE IF rd.err # "OK" /\ ~(rd.err = "ENOENT" /\ rd.creat)
    THEN ThrowFS(DenoError(rd.err), f)
    ELSE IF rs.loc = <<>> \/ rd.loc = <<>> THEN ThrowFS(DenoError("EBUSY"), f)
    ELSE IF rs.loc = rd.loc THEN OkFS(Empty, f)
    ELSE IF se.kind = "dir" /\ IsLocPrefix(rs.loc, rd.loc)
    THEN ThrowFS(DenoError("EINVAL"), f)
    ELSE IF rd.err = "OK" /\ se.kind = "dir" /\ de.kind # "dir"
    THEN ThrowFS(DenoError("ENOTDIR"), f)
    ELSE IF rd.err = "OK" /\ se.kind # "dir" /\ de.kind = "dir"
    THEN ThrowFS(DenoError("EISDIR"), f)
    ELSE IF rd.err = "OK" /\ Children(f, rd.loc) # {}
    THEN ThrowFS(DenoError("ENOTEMPTY"), f)
    ELSE IF \E n \in Subtree(f, rs.loc) :
                rd.loc \o SubSeq(n, Len(rs.loc) + 1, Len(n)) \notin Nodes
    THEN ThrowFS(DenoError("CAP"), f)
    ELSE OkFS(Empty, MoveTree(f, rs.loc, rd.loc))

\* Deno.renameSync: rename(2); neither final component is followed
renameSync(f, src, dst) ==
    RenameAt(f, Lookup(f, src, FALSE), Lookup(f, dst, FALSE))

(***************************************************************************)
(* deno/fs: existsSync and moveSync                                        *)
(***************************************************************************)
E_destExists == [class |-> "Error", code |-> "dest already exists."]
E_subdir == [class |-> "Error", code |-> "Cannot move to a subdirectory of itself"]
E_fileExists == [class |-> "string", code |-> "file-exists"]

\* try { stat } catch (err) { if NotFound return false; throw err }
NotFoundIsFalse(r) ==
    IF r.ok THEN Ok(TRUE)
    ELSE IF r.val.class = "NotFound" THEN Ok(FALSE)
    ELSE Throw(r.val)

\* fs.existsSync: lstat, so a symlink exists whatever its target
existsSync(f, s) == NotFoundIsFalse(lstatSync(f, s))

\* isSubdir(src, dest) of deno/fs/_util.ts
isSubdir(src, dest) ==
    IF src = dest THEN FALSE
    ELSE
        LET srcArray == Split(src)
            destArray == Split(dest)
        IN \A i \in 1..Len(srcArray) :
               i <= Len(destArray) /\ destArray[i] = srcArray[i]

\* the rename that ends moveSync, after the removal of the destination
\* (rmv) when there was one
RenameAfter(rmv, src, dest) ==
    IF ~rmv.ok THEN rmv ELSE renameSync(rmv.fs, src, dest)

\* moveSync once the source is stat'ed (srcStat) and the destination
\* looked for (ex), renaming without looking at ex when overwrite is off
MoveChecked_NoConflictCheck(f, src, dest, overwrite, srcStat, ex) ==
    IF ~srcStat.ok THEN ThrowFS(srcStat.val, f)
    ELSE IF srcStat.val.kind = "dir" /\ isSubdir(src, dest)
    THEN ThrowFS(E_subdir, f)
    ELSE IF ~ex.ok THEN ThrowFS(ex.val, f)
    ELSE RenameAfter(IF overwrite /\ ex.val THEN removeSync(f, dest, TRUE)
                     ELSE OkFS(Empty, f),
                     src, dest)

\* moveSync that renames without looking at the destination when
\* overwrite is off
moveSync_NoConflictCheck(f, src, dest, overwrite) ==
    MoveChecked_NoConflictCheck(f, src, dest, overwrite,
                                statSync(f, src), existsSync(f, dest))

\* moveSync once the source is stat'ed (srcStat) and the destination
\* looked for (ex)
MoveChecked(f, src, dest, overwrite, srcStat, ex) ==
    IF ~srcStat.ok THEN ThrowFS(srcStat.val, f)
    ELSE IF srcStat.val.kind = "dir" /\ isSubdir(src, dest)
    THEN ThrowFS(E_subdir, f)
    ELSE IF ~ex.ok THEN ThrowFS(ex.val, f)
    ELSE IF ~overwrite /\ ex.val THEN ThrowFS(E_destExists, f)
    ELSE RenameAfter(IF overwrite /\ ex.val THEN removeSync(f, dest, TRUE)
                     ELSE OkFS(Empty, f),
                     src, dest)

\* fs.moveSync(src, dest, {overwrite})
moveSync(f, src, dest, overwrite) ==
    MoveChecked(f, src, dest, overwrite, statSync(f, src), existsSync(f, dest))

(***************************************************************************)
(* Path: the operations on the filesystem                                  *)
(***************************************************************************)
\* exists(): stat, so a symlink exists when its target does
exists(f, this) == NotFoundIsFalse(statSync(f, this))

\* readlink() after Deno.readLinkSync gave output, joining the link's
\* target onto the path itself instead of its parent
ReadlinkOf_FromSelf(this, output) ==
    IF output.ok THEN join(this, <<output.val>>)
    ELSE IF output.val.class = "TypeError" /\ output.val.code = "EINVAL"
    THEN Ok(this)
    ELSE Throw(output.val)

\* readlink that joins the link's target onto the path itself instead of
\* its parent
readlink_FromSelf(f, this) == ReadlinkOf_FromSelf(this, readLinkSync(f, this))

\* readlink() after Deno.readLinkSync gave output
ReadlinkOf(this, output) ==
    IF output.ok THEN join(parent(this).val, <<output.val>>)
    ELSE IF output.val.class = "TypeError" /\ output.val.code = "EINVAL"
    THEN Ok(this)
    ELSE Throw(output.val)

\* readlink()
readlink(f, this) == ReadlinkOf(this, readLinkSync(f, this))

\* rm() after this.exists() gave e
RmIf(f, this, recursive, e) ==
    IF ~e.ok THEN ThrowFS(e.val, f)
    ELSE IF e.val THEN removeSync(f, this, recursive)
    ELSE OkFS(Empty, f)

\* rm({recursive})
rm(f, this, recursive) == RmIf(f, this, recursive, exists(f, this))

\* JSON.stringify(json, null, space) of the empty object
JSONstringify(json, space) == JsonText

\* the text that write() writes; content is [type, text] or [type, json]
TextOf(content) ==
    IF content.type = "text" THEN content.text
    ELSE JSONstringify(content.json, 0)

\* return this, or what was thrown
ReturnThis(this, written) ==
    IF ~written.ok THEN written ELSE OkFS(this, written.fs)

\* the end of write(), after this.rm() (removed) when it was called
WriteAfter(this, content, removed) ==
    IF ~removed.ok THEN removed
    ELSE ReturnThis(this, writeTextFileSync(removed.fs, this, TextOf(content)))

\* write() after this.exists() gave e
WriteIf(f, this, force, content, e) ==
    IF ~e.ok THEN ThrowFS(e.val, f)
    ELSE IF e.val /\ ~force THEN ThrowFS(E_fileExists, f)
    ELSE WriteAfter(this, content,
                    IF e.val THEN rm(f, this, FALSE) ELSE OkFS(Empty, f))

\* write({force, text}) or write({force, json, space})
write(f, this, force, content) ==
    WriteIf(f, this, force, content, exists(f, this))

\* the destination of mv(); opts is [mode, path]
MvDestination(this, opts) ==
    IF opts.mode = "to" THEN opts.path
    ELSE join(opts.path, <<basename(this)>>).val

\* return the destination, or what was thrown
ReturnDest(dst, m) == IF m.ok THEN OkFS(dst, m.fs) ELSE m

MvTo(f, this, dst, force) == ReturnDest(dst, moveSync(f, this, dst, force))

\* mv({to, force}) or mv({into, force})
mv(f, this, opts, force) == MvTo(f, this, MvDestination(this, opts), force)

\* read()
read(f, this) == readTextFile(f, this)

(***************************************************************************)
(* SpecFS: a caller that makes one call after the other on the            *)
(* filesystem, one action per call.  The filesystem starts as any          *)
(* well-formed tree over Nodes.  last records the call just made: its      *)
(* name, receiver, arguments, whether it returned and what it returned or  *)
(* threw, and the filesystem it started from (pre); the caller takes the   *)
(* result (Return) before it makes its next call.                          *)
(***************************************************************************)
P_a == <<"/", "a">>
P_b == <<"/", "b">>
P_aa == <<"/", "a", "/", "a">>
P_ba == <<"/", "b", "/", "a">>

\* the Path values the operations are called on
FSPaths == {P_a, P_b, P_aa, P_ba}
\* the directories handed to mv as `into`
IntoPaths == {root, P_a, P_b}

Contents ==
    {[type |-> "text", text |-> t, json |-> <<>>] : t \in Texts}
    \cup {[type |-> "json", text |-> Empty, json |-> <<>>]}

NoContent == [type |-> "none", text |-> Empty, json |-> <<>>]
NoOpts == [mode |-> "none", path |-> Empty]

LastRec(op, this, opts, force, recursive, content, ok, val, pre) ==
    [op |-> op, self |-> this, opts |-> opts, force |-> force,
     recursive |-> recursive, content |-> content, ok |-> ok, val |-> val,
     pre |-> pre]

Capped(r) == ~r.ok /\ r.val.code = "CAP"

NoCall(f) == LastRec("none", root, NoOpts, FALSE, FALSE, NoContent, TRUE, Empty, f)

InitFS ==
    /\ fs \in WellFormedFS
    /\ last = NoCall(fs)
    /\ self = root
    /\ out = OutRec("init", TRUE, Empty, <<>>, Empty)
    /\ procs = NoFS

Readlink(p) ==
    /\ last.op = "none"
    /\ \E r \in {readlink(fs, p)} :
       /\ last' = LastRec("readlink", p, NoOpts, FALSE, FALSE, NoContent, r.ok, r.val, fs)
       /\ UNCHANGED <<fs, self, out, procs>>

Rm(p, recursive) ==
    /\ last.op = "none"
    /\ \E r \in {rm(fs, p, recursive)} :
       /\ fs' = r.fs
       /\ last' = LastRec("rm", p, NoOpts, FALSE, recursive, NoContent, r.ok, r.val, fs)
       /\ UNCHANGED <<self, out, procs>>

Write(p, force, content) ==
    /\ last.op = "none"
    /\ \E r \in {write(fs, p, force, content)} :
       /\ ~Capped(r)
       /\ fs' = r.fs
       /\ last' = LastRec("write", p, NoOpts, force, FALSE, content, r.ok, r.val, fs)
       /\ UNCHANGED <<self, out, procs>>

Mv(p, opts, force) ==
    /\ last.op = "none"
    /\ \E r \in {mv(fs, p, opts, force)} :
       /\ ~Capped(r)
       /\ fs' = r.fs
       /\ last' = LastRec("mv", p, opts, force, FALSE, NoContent, r.ok, r.val, fs)
       /\ UNCHANGED <<self, out, procs>>

Read(p) ==
    /\ last.op = "none"
    /\ \E r \in {read(fs, p)} :
       /\ last' = LastRec("read", p, NoOpts, FALSE, FALSE, NoContent, r.ok, r.val, fs)
       /\ UNCHANGED <<fs, self, out, procs>>

\* the caller takes the result of its call
Return ==
    /\ last.op # "none"
    /\ last' = NoCall(fs)
    /\ UNCHANGED <<fs, self, out, procs>>

NextFS ==
    \/ \E p \in FSPaths : Readlink(p)
    \/ \E p \in FSPaths, recursive \in BOOLEAN : Rm(p, recursive)
    \/ \E p \in FSPaths, force \in BOOLEAN, content \in Contents :
           Write(p, force, content)
    \/ \E p \in FSPaths, to \in FSPaths, force \in BOOLEAN :
           Mv(p, [mode |-> "to", path |-> to], force)
    \/ \E p \in FSPaths, into \in IntoPaths, force \in BOOLEAN :
           Mv(p, [mode |-> "into", path |-> into], force)
    \/ \E p \in FSPaths : Read(p)
    \/ Return

SpecFS == InitFS /\ [][NextFS]_vars

(***************************************************************************)
(* Properties of the filesystem operations.  An entry exists at a path     *)
(* when lstat finds one there, whatever its kind; nothing exists there     *)
(* when the resolution ends in ENOENT.                                     *)
(***************************************************************************)
\* every operation leaves a well-formed tree
FSStaysWellFormed == WellFormed(fs)

EntryExists(f, s) == Lookup(f, s, FALSE).err = "OK"
NothingAt(f, s) == Lookup(f, s, FALSE).err = "ENOENT"
KindOf(f, s) ==
    IF EntryExists(f, s) THEN EntryAt(f, Lookup(f, s, FALSE).loc).kind
    ELSE "none"
DataOf(f, s) == EntryAt(f, Lookup(f, s, FALSE).loc).data

\* C6: readlink() never changes the filesystem; on a symlink with target t
\* it returns parent().join(t), whether or not the target exists; on an
\* entry that is not a symlink it returns the path itself; where nothing
\* exists it throws a not-found error.  The result is computed from the
\* string of the path: symlinks in earlier components are not resolved.
C6_Readlink ==
    last.op = "readlink" =>
        LET p == last.self IN
        /\ fs = last.pre
        /\ KindOf(last.pre, p) = "link" =>
               /\ last.ok
               /\ Ok(last.val) = join(parent(p).val, <<DataOf(last.pre, p)>>)
        /\ KindOf(last.pre, p) \in {"file", "dir"} =>
               /\ last.ok
               /\ last.val = p
        /\ NothingAt(last.pre, p) =>
               /\ ~last.ok
               /\ last.val.class = "NotFound"

\* readlink() of /b/a, where /b is a symlink to the directory /a and /a/a
\* is a dangling symlink with the relative target "a": the result is /b/a,
\* not /a/a
C6_Witness ==
    /\ last.op = "readlink"
    /\ last.self = P_ba
    /\ KindOf(last.pre, P_b) = "link"
    /\ KindOf(last.pre, P_ba) = "link"
    /\ DataOf(last.pre, P_ba) = <<"a">>
    /\ ~statSync(last.pre, P_ba).ok
    /\ last.ok
    /\ last.val = P_ba

\* C7: write() without force on a path where an entry exists throws
\* file-exists and leaves the filesystem unchanged, whatever the content;
\* write() with force on a path holding a file returns, and read() then
\* yields the text written.
C7_WriteConflict ==
    last.op = "write" =>
        LET p == last.self
            text == IF last.content.type = "text" THEN last.content.text
                    ELSE JsonText
        IN
        /\ (~last.force /\ EntryExists(last.pre, p)) =>
               /\ ~last.ok
               /\ last.val = E_fileExists
               /\ fs = last.pre
        /\ (last.force /\ KindOf(last.pre, p) = "file") =>
               /\ last.ok
               /\ read(fs, p) = Ok(text)

\* the destination of a mv: `to`, or into.join(self.basename())
MvDest(l) ==
    IF l.opts.mode = "to" THEN l.opts.path
    ELSE l.opts.path \o (IF l.opts.path = root THEN Empty ELSE Slash)
             \o Segments(l.self)[Len(Segments(l.self))]

\* C8 as stated: mv() without force throws already-exists and leaves the
\* filesystem unchanged whenever an entry exists at the destination, the
\* self-move included.
C8_MvConflict_Original ==
    (last.op = "mv" /\ ~last.force /\ EntryExists(last.pre, MvDest(last))) =>
        /\ ~last.ok
        /\ last.val = E_destExists
        /\ fs = last.pre

\* C8 as amended: mv() without force throws and leaves the filesystem
\* unchanged whenever an entry exists at the destination; the error is
\* already-exists when the source can be stat'ed and is not a directory
\* whose path lies strictly above the destination, the self-move of such a
\* source included.
C8_MvConflict ==
    (last.op = "mv" /\ ~last.force /\ EntryExists(last.pre, MvDest(last))) =>
        LET src == last.self
            dst == MvDest(last)
            st == statSync(last.pre, src)
        IN
        /\ ~last.ok
        /\ fs = last.pre
        /\ (st.ok /\ ~(st.val.kind = "dir" /\ src # dst
                        /\ SegPrefix(Segments(src), Segments(dst))))
               => last.val = E_destExists

\* a self-move without force of an existing file: already-exists
C8_Witness ==
    /\ last.op = "mv"
    /\ ~last.force
    /\ last.opts.mode = "into"
    /\ MvDest(last) = last.self
    /\ KindOf(last.pre, last.self) = "file"
    /\ ~last.ok
    /\ last.val = E_destExists
    /\ fs = last.pre

\* C10: when rm({recursive: true}) returns, no entry of any kind is left
\* at the path, a symlink whose target does not exist included; and when
\* nothing exists at the path it returns and leaves the filesystem
\* unchanged.
C10_RmRemoves ==
    (last.op = "rm" /\ last.recursive) =>
        /\ last.ok => ~EntryExists(fs, last.self)
        /\ NothingAt(last.pre, last.self) => (last.ok /\ fs = last.pre)

(***************************************************************************)
(* SpecConc: two callers of write() on the same filesystem, interleaved    *)
(* between the OS primitives that write() and the rm() it calls execute:   *)
(*   w_exists   write: this.exists()                (line 316)             *)
(*   rm_exists  rm:    this.exists()                (line 228)             *)
(*   rm_remove  rm:    Deno.removeSync              (line 229)             *)
(*   w_write    write: Deno.writeTextFileSync       (lines 320-325)        *)
(* A caller may crash between any two primitives.  procs[i] holds the      *)
(* caller's position, the arguments of its call, whether its removeSync    *)
(* has removed an entry in this call, and the outcome of its last call.    *)
(***************************************************************************)
Callers == {1, 2}
ConcPaths == {P_a}

IdleProc(res) ==
    [pc |-> "idle", path |-> Empty, force |-> FALSE, text |-> Empty,
     removed |-> FALSE, res |-> res]

InitConc ==
    /\ fs = EmptyFS
    /\ procs = [i \in Callers |-> IdleProc("none")]
    /\ last = NoFS
    /\ self = root
    /\ out = OutRec("init", TRUE, Empty, <<>>, Empty)

\* caller i calls p.write({force, ...content})
Call(i, p, force, content) ==
    /\ procs[i].pc = "idle"
    /\ procs' = [procs EXCEPT ![i] =
           [pc |-> "w_exists", path |-> p, force |-> force,
            text |-> IF content.type = "text" THEN content.text
                     ELSE JSONstringify(content.json, 0),
            removed |-> FALSE, res |-> "none"]]
    /\ UNCHANGED <<fs, last, self, out>>

\* write: if (this.exists()) { if (!force) throw ...; this.rm() }
WExists(i) ==
    /\ procs[i].pc = "w_exists"
    /\ \E e \in {exists(fs, procs[i].path)} :
           procs' = [procs EXCEPT ![i] =
               IF ~e.ok THEN IdleProc(e.val.code)
               ELSE IF e.val /\ ~procs[i].force THEN IdleProc(E_fileExists.code)
               ELSE IF e.val THEN [@ EXCEPT !.pc = "rm_exists"]
               ELSE [@ EXCEPT !.pc = "w_write"]]
    /\ UNCHANGED <<fs, last, self, out>>

\* rm: if (this.exists())
RmExists(i) ==
    /\ procs[i].pc = "rm_exists"
    /\ \E e \in {exists(fs, procs[i].path)} :
           procs' = [procs EXCEPT ![i] =
               IF ~e.ok THEN IdleProc(e.val.code)
               ELSE IF e.val THEN [@ EXCEPT !.pc = "rm_remove"]
               ELSE [@ EXCEPT !.pc = "w_write"]]
    /\ UNCHANGED <<fs, last, self, out>>

\* the removal and the write done as one step: an atomic replace
RmRemove_AtomicReplace(i) ==
    /\ procs[i].pc = "rm_remove"
    /\ \E r \in {writeTextFileSync(fs, procs[i].path, procs[i].text)} :
           /\ fs' = r.fs
           /\ procs' = [procs EXCEPT ![i] =
                  IF r.ok THEN IdleProc("ok") ELSE IdleProc(r.val.code)]
    /\ UNCHANGED <<last, self, out>>

\* rm: Deno.removeSync(this.string, { recursive })
RmRemove(i) ==
    /\ procs[i].pc = "rm_remove"
    /\ \E r \in {removeSync(fs, procs[i].path, FALSE)} :
           /\ fs' = r.fs
           /\ procs' = [procs EXCEPT ![i] =
                  IF r.ok THEN [@ EXCEPT !.pc = "w_write", !.removed = TRUE]
                  ELSE IdleProc(r.val.code)]
    /\ UNCHANGED <<last, self, out>>

\* write: Deno.writeTextFileSync(this.string, text); return this
WWrite(i) ==
    /\ procs[i].pc = "w_write"
    /\ \E r \in {writeTextFileSync(fs, procs[i].path, procs[i].text)} :
           /\ ~Capped(r)
           /\ fs' = r.fs
           /\ procs' = [procs EXCEPT ![i] =
                  IF r.ok THEN IdleProc("ok") ELSE IdleProc(r.val.code)]
    /\ UNCHANGED <<last, self, out>>

\* caller i dies inside its call
Crash(i) ==
    /\ procs[i].pc \in {"w_exists", "rm_exists", "rm_remove", "w_write"}
    /\ procs' = [procs EXCEPT ![i] = [@ EXCEPT !.pc = "crashed"]]
    /\ UNCHANGED <<fs, last, self, out>>

NextConc ==
    \/ \E i \in Callers, p \in ConcPaths, force \in BOOLEAN, content \in Contents :
           Call(i, p, force, content)
    \/ \E i \in Callers : WExists(i)
    \/ \E i \in Callers : RmExists(i)
    \/ \E i \in Callers : RmRemove(i)
    \/ \E i \in Callers : WWrite(i)
    \/ \E i \in Callers : Crash(i)

SpecConc == InitConc /\ [][NextConc]_vars

\* C9: write() with force on an existing path is no atomic replace: the
\* step of a caller that leaves rm's removeSync without an error leaves
\* nothing at the path and leaves the caller before its write, which is a
\* later step; until then other callers and a crash see the path empty.
C9_WriteForceNotAtomic ==
    [][\A i \in Callers :
          (/\ procs[i].pc = "rm_remove"
           /\ procs'[i].pc \notin {"rm_remove", "crashed"}
           /\ procs'[i].res \in {"none", "ok"})
          => (/\ procs'[i].pc = "w_write"
              /\ procs'[i].removed
              /\ NothingAt(fs', procs[i].path))]_vars

\* caller 1 has removed the entry and crashed before its write, caller 2
\* is inside a write with force on the same path, past the removal and
\* before its own write, and nothing exists at the path
C9_Witness ==
    /\ procs[1].pc = "crashed"
    /\ procs[1].removed
    /\ procs[1].force
    /\ procs[2].pc = "w_write"
    /\ procs[2].force
    /\ procs[2].path = procs[1].path
    /\ NothingAt(fs, procs[1].path)

====
